---- MODULE Spec2Model ----
(***************************************************************************)
(* Room presence and broadcast handlers of app.py (the Socket.IO events    *)
(* join, leave, disconnect and send_message) over the module-level state   *)
(* room_members and sid_map, together with the Socket.IO server's own room *)
(* table that join_room / leave_room / emit(room=...) work on.             *)
(*                                                                         *)
(* Room names are written in ASCII: "KR" stands for the first entry of     *)
(* CHAT_ROOMS (the default room of data.get('room', ...)), "JP", "VN",     *)
(* "PH", "TH" for the others; "US" is a room name outside CHAT_ROOMS.      *)
(* "SYSTEM" is the sender name of system notices, "ANON" the default of    *)
(* data.get('user', ...).                                                  *)
(***************************************************************************)
EXTENDS Integers, Sequences, FiniteSets, TLC

\* ---------------------------------------------------------------- bounds
NumSids == 2
MaxLog == 1
MaxOrderLog == 2

\* ------------------------------------------------------------- constants
CHAT_ROOMS == {"KR", "JP", "VN", "PH", "TH"}
DefaultRoom == "KR"
DefaultUser == "ANON"
SystemUser == "SYSTEM"
None == "None"

Sids == 1..NumSids

\* the session of a connection: no "user_id" key, or a user id
NoSession == 0
Sessions == {NoSession, 1, 2}

\* the rows of the User table: id -> nickname
UserTable == (1 :> "Alice") @@ (2 :> "Bob")

\* ---------------------------------------------------------------- inputs
\* the room names events carry: two configured rooms, or a configured room
\* and one outside CHAT_ROOMS
RoomInputs == {"KR", "JP"}
OtherRoomInputs == {"KR", "US"}
UserInputs == {"Eve"}
TextInputs == {<<>>, <<" ", " ">>, <<"h">>, <<" ", "h", " ">>}
\* two texts that differ after stripping, sent to one room
OrderRoomInputs == {"KR"}
OrderTextInputs == {<<"h">>, <<"i", " ">>}

\* event payloads: a dict holding any subset of the keys room, user, msg
WithKey(k, vals) == {<<>>} \cup {(k :> v) : v \in vals}
EventData(rooms) ==
  {r @@ u : r \in WithKey("room", rooms), u \in WithKey("user", UserInputs)}
SendData(rooms) ==
  {r @@ m : r \in WithKey("room", rooms), m \in WithKey("msg", TextInputs)}
OrderSendData ==
  {("room" :> r) @@ ("msg" :> m) : r \in OrderRoomInputs, m \in OrderTextInputs}

VARIABLES
  room_members,   \* dict: room -> set of sids
  sid_map,        \* dict: sid -> [nick, room]
  sio_rooms,      \* the Socket.IO server's rooms: room -> set of sids
  conn,           \* sid -> "new" | "open" | "closed"
  session,        \* sid -> the session of the connection
  messages,       \* the rows of the Message table, in insertion order
  emitted,        \* the events the last handler emitted, in order
  last,           \* the last event handled, with what held for its sid before
  pc              \* sid -> the line its running handler is at, with its locals

vars == <<room_members, sid_map, sio_rooms, conn, session, messages, emitted, last, pc>>

\* ------------------------------------------------------------ dict helpers
Get(d, k, default) == IF k \in DOMAIN d THEN d[k] ELSE default
Pop(d, k) == [x \in (DOMAIN d) \ {k} |-> d[x]]
Put(d, k, v) == [x \in (DOMAIN d) \cup {k} |-> IF x = k THEN v ELSE d[x]]
Truthy(x) == x # None /\ x # ""

\* a strip that removes nothing
strip_nothing(t) == t

\* str.strip() on a text given as a sequence of characters
RECURSIVE lstrip(_)
lstrip(t) == IF t # <<>> /\ Head(t) = " " THEN lstrip(Tail(t)) ELSE t
RECURSIVE rstrip(_)
rstrip(t) == IF t # <<>> /\ t[Len(t)] = " " THEN rstrip(SubSeq(t, 1, Len(t) - 1)) ELSE t
strip(t) == rstrip(lstrip(t))

\* User.query.get(session['user_id']) then user.nickname, else the claimed name
Nickname(sess, data) ==
  IF sess \in DOMAIN UserTable THEN UserTable[sess] ELSE Get(data, "user", DefaultUser)

\* a handler that lets every session through
login_not_checked(sess) == FALSE

\* "user_id" not in session
not_logged_in(sess) == sess = NoSession

\* the connections a broadcast without room= reaches
Connected == {s \in Sids : conn[s] = "open"}

\* ------------------------------------------------- build_room_state_payload
NamesOf(rm, sm, room) ==
  LET members == Get(rm, room, {}) \cap DOMAIN sm
  IN [n \in {sm[s].nick : s \in members} |->
        Cardinality({s \in members : sm[s].nick = n})]

build_room_state_payload(rm, sm) ==
  [counts |-> [room \in CHAT_ROOMS |-> Cardinality(Get(rm, room, {}))],
   lists  |-> [room \in CHAT_ROOMS |-> NamesOf(rm, sm, room)]]

\* ------------------------------------------------------------------ events
Notice(room, nickname, what, to) ==
  [ev |-> "receive_message", room |-> room, to |-> to,
   user |-> SystemUser, msg |-> <<nickname, what>>]
Chat(room, nickname, text, to) ==
  [ev |-> "receive_message", room |-> room, to |-> to,
   user |-> nickname, msg |-> text]
Snapshot(rm, sm, to) ==
  [ev |-> "room_users_update", room |-> None, to |-> to,
   user |-> None, msg |-> build_room_state_payload(rm, sm)]
AuthRequired(sid) ==
  [ev |-> "auth_required", room |-> None, to |-> {sid}, user |-> None, msg |-> None]

\* no handler of the connection is running
Idle == [at |-> "idle", room |-> None, nickname |-> None, prev_room |-> None,
         clean |-> FALSE]

\* what held for sid before the handler ran
Before(op, sid, room) ==
  [op |-> op, sid |-> sid, room |-> room,
   pre_room |-> IF sid \in DOMAIN sid_map THEN sid_map[sid].room ELSE None,
   pre_in |-> {r \in DOMAIN room_members : sid \in room_members[r]},
   pre_conn |-> conn[sid],
   msg |-> <<>>, effects |-> <<>>, saved |-> FALSE]

\* ------------------------------------------------------------ on_disconnect
\* on_disconnect emitting the snapshot whether or not it removed a member
on_disconnect_always_emits(rm, sm, sid, audience) ==
  LET room == IF sid \in DOMAIN sm THEN sm[sid].room ELSE None
      sm1 == Pop(sm, sid)
      rm1 == IF sid \in DOMAIN sm /\ Truthy(room) /\ sid \in Get(rm, room, {})
             THEN [rm EXCEPT ![room] = @ \ {sid}] ELSE rm
  IN [rm |-> rm1, sm |-> sm1, out |-> <<Snapshot(rm1, sm1, audience)>>]

\* the handler's effect on (room_members, sid_map) and the events it emits
on_disconnect(rm, sm, sid, audience) ==
  LET room == IF sid \in DOMAIN sm THEN sm[sid].room ELSE None
      sm1 == Pop(sm, sid)
  IN IF sid \in DOMAIN sm /\ Truthy(room) /\ sid \in Get(rm, room, {})
     THEN LET rm1 == [rm EXCEPT ![room] = @ \ {sid}]
          IN [rm |-> rm1, sm |-> sm1, out |-> <<Snapshot(rm1, sm1, audience)>>]
     ELSE [rm |-> rm, sm |-> sm1, out |-> <<>>]

\* the server drops a closed connection from every room it entered
DropFromRooms(sio, sid) == [r \in DOMAIN sio |-> sio[r] \ {sid}]

\* ------------------------------------------------------------------ on_join
\* a join that forgets to take the handle out of its previous room
join_state_keeps_prev_room(rm, sm, sid, room, nickname) ==
  [rm |-> Put(rm, room, Get(rm, room, {}) \cup {sid}),
   sm |-> Put(sm, sid, [nick |-> nickname, room |-> room])]

\* the registry and membership update of a join by an authenticated session
join_state(rm, sm, sid, room, nickname) ==
  LET prev_room == IF sid \in DOMAIN sm THEN sm[sid].room ELSE None
      switch == Truthy(prev_room) /\ prev_room # room
      rm1 == IF switch /\ sid \in Get(rm, prev_room, {})
             THEN [rm EXCEPT ![prev_room] = @ \ {sid}] ELSE rm
      sm1 == IF switch THEN Pop(sm, sid) ELSE sm
  IN [rm |-> Put(rm1, room, Get(rm1, room, {}) \cup {sid}),
      sm |-> Put(sm1, sid, [nick |-> nickname, room |-> room])]

\* join_room(room) / leave_room(room) of the Socket.IO server
join_room(sio, sid, room) == Put(sio, room, Get(sio, room, {}) \cup {sid})
leave_room(sio, sid, room) ==
  IF room \in DOMAIN sio THEN [sio EXCEPT ![room] = @ \ {sid}] ELSE sio

\* the recipients of emit(..., room=room)
RoomAudience(sio, room) == Get(sio, room, {})

join_events(rm, sm, sio, room, nickname, audience) ==
  <<Notice(room, nickname, "entered", RoomAudience(sio, room)),
    Snapshot(rm, sm, audience)>>

\* ----------------------------------------------------------------- on_leave
leave_state(rm, sm, sid, room) ==
  [rm |-> IF sid \in Get(rm, room, {}) THEN [rm EXCEPT ![room] = @ \ {sid}] ELSE rm,
   sm |-> Pop(sm, sid)]

leave_events(rm, sm, sio, room, nickname, audience) ==
  <<Notice(room, nickname, "left", RoomAudience(sio, room)),
    Snapshot(rm, sm, audience)>>

\* ------------------------------------------------------ handle_send_message
\* a save that puts the new row in front of the older ones
save_message_in_front(log, room, nickname, text, ok) ==
  IF ok THEN <<[room |-> room, nickname |-> nickname, text |-> text]>> \o log ELSE log

\* the Message row added when the commit succeeds; a failed commit is rolled back
save_message(log, room, nickname, text, ok) ==
  IF ok THEN Append(log, [room |-> room, nickname |-> nickname, text |-> text]) ELSE log

send_events(sio, room, nickname, text) ==
  <<Chat(room, nickname, text, RoomAudience(sio, room))>>

\* what an accepted send does, in the order of the code: the commit (or the
\* rollback of a failed one), then the emit
send_effects(ok) == <<IF ok THEN "commit" ELSE "rollback", "emit">>

\* an accepted send whose failed commit ends the handler
send_outcome_failure_aborts(log, sio, room, nickname, text, ok) ==
  IF ok
  THEN [log |-> save_message(log, room, nickname, text, ok),
        out |-> send_events(sio, room, nickname, text),
        effects |-> send_effects(ok)]
  ELSE [log |-> log, out |-> <<>>, effects |-> <<"rollback">>]

\* an accepted send: the Message table, the events and the order of effects
send_outcome(log, sio, room, nickname, text, ok) ==
  [log |-> save_message(log, room, nickname, text, ok),
   out |-> send_events(sio, room, nickname, text),
   effects |-> send_effects(ok)]

Init ==
  /\ room_members = [room \in CHAT_ROOMS |-> {}]
  /\ sid_map = <<>>
  /\ sio_rooms = <<>>
  /\ conn = [s \in Sids |-> "new"]
  /\ session = [s \in Sids |-> NoSession]
  /\ messages = <<>>
  /\ emitted = <<>>
  /\ last = [op |-> "init", sid |-> 0, room |-> None, pre_room |-> None,
             pre_in |-> {}, pre_conn |-> "new",
             msg |-> <<>>, effects |-> <<>>, saved |-> FALSE]
  /\ pc = [s \in Sids |-> Idle]

Connect(sid, sess) ==
  /\ conn[sid] = "new"
  /\ conn' = [conn EXCEPT ![sid] = "open"]
  /\ session' = [session EXCEPT ![sid] = sess]
  /\ emitted' = <<>>
  /\ last' = Before("connect", sid, None)
  /\ UNCHANGED <<room_members, sid_map, sio_rooms, messages, pc>>

Disconnect(sid) ==
  /\ conn[sid] \in {"open", "closed"}
  /\ LET r == on_disconnect(room_members, sid_map, sid, Connected)
     IN /\ room_members' = r.rm
        /\ sid_map' = r.sm
        /\ emitted' = r.out
  /\ sio_rooms' = DropFromRooms(sio_rooms, sid)
  /\ conn' = [conn EXCEPT ![sid] = "closed"]
  /\ last' = Before("disconnect", sid, None)
  /\ UNCHANGED <<session, messages, pc>>

Join(sid, data) ==
  /\ conn[sid] = "open"
  /\ LET room == Get(data, "room", DefaultRoom)
         nickname == Nickname(session[sid], data)
     IN IF not_logged_in(session[sid])
        THEN LET r == on_disconnect(room_members, sid_map, sid, Connected)
             IN /\ room_members' = r.rm
                /\ sid_map' = r.sm
                /\ emitted' = <<AuthRequired(sid)>> \o r.out
                /\ sio_rooms' = DropFromRooms(sio_rooms, sid)
                /\ conn' = [conn EXCEPT ![sid] = "closed"]
                /\ last' = Before("join", sid, room)
        ELSE LET r == join_state(room_members, sid_map, sid, room, nickname)
                 sio == join_room(sio_rooms, sid, room)
             IN /\ room_members' = r.rm
                /\ sid_map' = r.sm
                /\ sio_rooms' = sio
                /\ emitted' = join_events(r.rm, r.sm, sio, room, nickname, Connected)
                /\ conn' = conn
                /\ last' = Before("join", sid, room)
  /\ UNCHANGED <<session, messages, pc>>

Leave(sid, data) ==
  /\ conn[sid] = "open"
  /\ LET room == Get(data, "room", DefaultRoom)
         nickname == Nickname(session[sid], data)
         r == leave_state(room_members, sid_map, sid, room)
         sio == leave_room(sio_rooms, sid, room)
     IN /\ room_members' = r.rm
        /\ sid_map' = r.sm
        /\ sio_rooms' = sio
        /\ emitted' = leave_events(r.rm, r.sm, sio, room, nickname, Connected)
        /\ last' = Before("leave", sid, room)
  /\ UNCHANGED <<conn, session, messages, pc>>

SendMessage(sid, data, ok) ==
  /\ conn[sid] = "open"
  /\ LET room == Get(data, "room", DefaultRoom)
         msg == Get(data, "msg", <<>>)
         text == strip(msg)
         nickname == Nickname(session[sid], data)
     IN IF not_logged_in(session[sid])
        THEN /\ emitted' = <<AuthRequired(sid)>>
             /\ messages' = messages
             /\ last' = [Before("send_message", sid, room) EXCEPT !.msg = msg]
        ELSE IF text = <<>>
        THEN /\ emitted' = <<>>
             /\ messages' = messages
             /\ last' = [Before("send_message", sid, room) EXCEPT !.msg = msg]
        ELSE LET r == send_outcome(messages, sio_rooms, room, nickname, text, ok)
             IN /\ messages' = r.log
                /\ emitted' = r.out
                /\ last' = [Before("send_message", sid, room) EXCEPT
                              !.msg = msg, !.effects = r.effects, !.saved = ok]
  /\ UNCHANGED <<room_members, sid_map, sio_rooms, conn, session, pc>>

\* send_message while the Message table has room for the row it may add
BoundedSend(sid, data, ok, cap) ==
  /\ ok => Len(messages) < cap
  /\ SendMessage(sid, data, ok)

Next ==
  \/ \E sid \in Sids, sess \in Sessions : Connect(sid, sess)
  \/ \E sid \in Sids, data \in EventData(RoomInputs) : Join(sid, data)
  \/ \E sid \in Sids, data \in EventData(RoomInputs) : Leave(sid, data)
  \/ \E sid \in Sids, data \in SendData(RoomInputs), ok \in BOOLEAN :
        BoundedSend(sid, data, ok, MaxLog)
  \/ \E sid \in Sids : Disconnect(sid)

Spec == Init /\ [][Next]_vars

\* the same handlers, with events that name a room outside CHAT_ROOMS
NextOtherRoom ==
  \/ \E sid \in Sids, sess \in Sessions : Connect(sid, sess)
  \/ \E sid \in Sids, data \in EventData(OtherRoomInputs) : Join(sid, data)
  \/ \E sid \in Sids, data \in EventData(OtherRoomInputs) : Leave(sid, data)
  \/ \E sid \in Sids, data \in SendData(OtherRoomInputs), ok \in BOOLEAN :
        BoundedSend(sid, data, ok, MaxLog)
  \/ \E sid \in Sids : Disconnect(sid)

SpecOtherRoom == Init /\ [][NextOtherRoom]_vars

\* the same handlers, with sends of two different texts to one room and a
\* Message table of up to MaxOrderLog rows
NextOrder ==
  \/ \E sid \in Sids, sess \in Sessions : Connect(sid, sess)
  \/ \E sid \in Sids, data \in EventData(OrderRoomInputs) : Join(sid, data)
  \/ \E sid \in Sids, data \in EventData(OrderRoomInputs) : Leave(sid, data)
  \/ \E sid \in Sids, data \in OrderSendData, ok \in BOOLEAN :
        BoundedSend(sid, data, ok, MaxOrderLog)
  \/ \E sid \in Sids : Disconnect(sid)

SpecOrder == Init /\ [][NextOrder]_vars

\* ------------------------------------------------------------------ views
InRooms(sid) == {r \in DOMAIN room_members : sid \in room_members[r]}
RoomOf(sid) == IF sid \in DOMAIN sid_map THEN sid_map[sid].room ELSE None
Emits(ev) == \E i \in DOMAIN emitted : emitted[i].ev = ev

IsNotice(e) == e.ev = "receive_message" /\ e.user = SystemUser
Authed(sid) == session[sid] # NoSession

\* ------------------------------------------- handlers running concurrently
\* The handlers of different connections as the server's threads run them:
\* every read and every write of room_members and sid_map is a step of its
\* own, and the steps of two connections interleave. The code takes no lock.
\* One connection has one handler running at a time.

\* sid is in the room its registry entry names and in no other, or in none
Clean(sid) == InRooms(sid) = {RoomOf(sid)} \ {None}

At(sid, line) == pc[sid].at = line
Goto(sid, line) == pc' = [pc EXCEPT ![sid].at = line]

\* on_join, lines 383-387: the session is checked, room and nickname are read
JoinBegin(sid, data) ==
  /\ conn[sid] = "open"
  /\ pc[sid] = Idle
  /\ ~not_logged_in(session[sid])
  /\ pc' = [pc EXCEPT ![sid] = [at |-> "join_389",
                                room |-> Get(data, "room", DefaultRoom),
                                nickname |-> Nickname(session[sid], data),
                                prev_room |-> None,
                                clean |-> Clean(sid)]]
  /\ emitted' = <<>>
  /\ UNCHANGED <<room_members, sid_map, sio_rooms, conn, session, messages, last>>

\* lines 389-391: prev_room is read from sid_map and compared with room
JoinReadPrev(sid) ==
  /\ At(sid, "join_389")
  /\ LET prev_room == RoomOf(sid)
     IN pc' = [pc EXCEPT ![sid].prev_room = prev_room,
                         ![sid].at = IF Truthy(prev_room) /\ prev_room # pc[sid].room
                                     THEN "join_392" ELSE "join_396"]
  /\ emitted' = <<>>
  /\ UNCHANGED <<room_members, sid_map, sio_rooms, conn, session, messages, last>>

\* lines 392-393
JoinDiscardPrev(sid) ==
  /\ At(sid, "join_392")
  /\ room_members' = IF sid \in Get(room_members, pc[sid].prev_room, {})
                     THEN [room_members EXCEPT ![pc[sid].prev_room] = @ \ {sid}]
                     ELSE room_members
  /\ Goto(sid, "join_394")
  /\ emitted' = <<>>
  /\ UNCHANGED <<sid_map, sio_rooms, conn, session, messages, last>>

\* line 394
JoinPopEntry(sid) ==
  /\ At(sid, "join_394")
  /\ sid_map' = Pop(sid_map, sid)
  /\ Goto(sid, "join_396")
  /\ emitted' = <<>>
  /\ UNCHANGED <<room_members, sio_rooms, conn, session, messages, last>>

\* line 396
JoinAddMember(sid) ==
  /\ At(sid, "join_396")
  /\ room_members' = Put(room_members, pc[sid].room,
                         Get(room_members, pc[sid].room, {}) \cup {sid})
  /\ Goto(sid, "join_397")
  /\ emitted' = <<>>
  /\ UNCHANGED <<sid_map, sio_rooms, conn, session, messages, last>>

\* line 397
JoinSetEntry(sid) ==
  /\ At(sid, "join_397")
  /\ sid_map' = Put(sid_map, sid, [nick |-> pc[sid].nickname, room |-> pc[sid].room])
  /\ Goto(sid, "join_399")
  /\ emitted' = <<>>
  /\ UNCHANGED <<room_members, sio_rooms, conn, session, messages, last>>

\* lines 399-401
JoinNotice(sid) ==
  /\ At(sid, "join_399")
  /\ sio_rooms' = join_room(sio_rooms, sid, pc[sid].room)
  /\ emitted' = <<Notice(pc[sid].room, pc[sid].nickname, "entered",
                         RoomAudience(sio_rooms', pc[sid].room))>>
  /\ Goto(sid, "join_403")
  /\ UNCHANGED <<room_members, sid_map, conn, session, messages, last>>

\* line 403: the snapshot is built from the two structures as they are now
JoinSnapshot(sid) ==
  /\ At(sid, "join_403")
  /\ emitted' = <<Snapshot(room_members, sid_map, Connected)>>
  /\ pc' = [pc EXCEPT ![sid] = Idle]
  /\ UNCHANGED <<room_members, sid_map, sio_rooms, conn, session, messages, last>>

\* on_leave, lines 407-411
LeaveBegin(sid, data) ==
  /\ conn[sid] = "open"
  /\ pc[sid] = Idle
  /\ pc' = [pc EXCEPT ![sid] = [at |-> "leave_413",
                                room |-> Get(data, "room", DefaultRoom),
                                nickname |-> Nickname(session[sid], data),
                                prev_room |-> None,
                                clean |-> Clean(sid)]]
  /\ emitted' = <<>>
  /\ UNCHANGED <<room_members, sid_map, sio_rooms, conn, session, messages, last>>

\* lines 413-414
LeaveDiscard(sid) ==
  /\ At(sid, "leave_413")
  /\ room_members' = leave_state(room_members, sid_map, sid, pc[sid].room).rm
  /\ Goto(sid, "leave_415")
  /\ emitted' = <<>>
  /\ UNCHANGED <<sid_map, sio_rooms, conn, session, messages, last>>

\* line 415
LeavePopEntry(sid) ==
  /\ At(sid, "leave_415")
  /\ sid_map' = Pop(sid_map, sid)
  /\ Goto(sid, "leave_417")
  /\ emitted' = <<>>
  /\ UNCHANGED <<room_members, sio_rooms, conn, session, messages, last>>

\* lines 417-419
LeaveNotice(sid) ==
  /\ At(sid, "leave_417")
  /\ sio_rooms' = leave_room(sio_rooms, sid, pc[sid].room)
  /\ emitted' = <<Notice(pc[sid].room, pc[sid].nickname, "left",
                         RoomAudience(sio_rooms', pc[sid].room))>>
  /\ Goto(sid, "leave_420")
  /\ UNCHANGED <<room_members, sid_map, conn, session, messages, last>>

\* line 420
LeaveSnapshot(sid) ==
  /\ At(sid, "leave_420")
  /\ emitted' = <<Snapshot(room_members, sid_map, Connected)>>
  /\ pc' = [pc EXCEPT ![sid] = Idle]
  /\ UNCHANGED <<room_members, sid_map, sio_rooms, conn, session, messages, last>>

\* on_disconnect, line 425: the transport reports the connection gone
DisconnectBegin(sid) ==
  /\ conn[sid] \in {"open", "closed"}
  /\ pc[sid] = Idle
  /\ pc' = [pc EXCEPT ![sid] = [Idle EXCEPT !.at = "disconnect_426",
                                            !.clean = Clean(sid)]]
  /\ emitted' = <<>>
  /\ UNCHANGED <<room_members, sid_map, sio_rooms, conn, session, messages, last>>

\* lines 426-428: the entry is popped and its room is read
DisconnectPopEntry(sid) ==
  /\ At(sid, "disconnect_426")
  /\ sid_map' = Pop(sid_map, sid)
  /\ pc' = [pc EXCEPT ![sid].prev_room = RoomOf(sid),
                      ![sid].at = IF Truthy(RoomOf(sid))
                                  THEN "disconnect_429" ELSE "disconnect_end"]
  /\ emitted' = <<>>
  /\ UNCHANGED <<room_members, sio_rooms, conn, session, messages, last>>

\* lines 429-430
DisconnectDiscard(sid) ==
  /\ At(sid, "disconnect_429")
  /\ IF sid \in Get(room_members, pc[sid].prev_room, {})
     THEN /\ room_members' = [room_members EXCEPT ![pc[sid].prev_room] = @ \ {sid}]
          /\ Goto(sid, "disconnect_431")
     ELSE /\ room_members' = room_members
          /\ Goto(sid, "disconnect_end")
  /\ emitted' = <<>>
  /\ UNCHANGED <<sid_map, sio_rooms, conn, session, messages, last>>

\* line 431
DisconnectSnapshot(sid) ==
  /\ At(sid, "disconnect_431")
  /\ emitted' = <<Snapshot(room_members, sid_map, Connected)>>
  /\ Goto(sid, "disconnect_end")
  /\ UNCHANGED <<room_members, sid_map, sio_rooms, conn, session, messages, last>>

\* the handler has returned: the server drops the connection from its rooms
DisconnectEnd(sid) ==
  /\ At(sid, "disconnect_end")
  /\ sio_rooms' = DropFromRooms(sio_rooms, sid)
  /\ conn' = [conn EXCEPT ![sid] = "closed"]
  /\ pc' = [pc EXCEPT ![sid] = Idle]
  /\ emitted' = <<>>
  /\ UNCHANGED <<room_members, sid_map, session, messages, last>>

\* connections of logged-in users, their handlers interleaved step by step
NextConcurrent ==
  \/ \E sid \in Sids, sess \in DOMAIN UserTable : Connect(sid, sess)
  \/ \E sid \in Sids, data \in EventData(RoomInputs) : JoinBegin(sid, data)
  \/ \E sid \in Sids : JoinReadPrev(sid)
  \/ \E sid \in Sids : JoinDiscardPrev(sid)
  \/ \E sid \in Sids : JoinPopEntry(sid)
  \/ \E sid \in Sids : JoinAddMember(sid)
  \/ \E sid \in Sids : JoinSetEntry(sid)
  \/ \E sid \in Sids : JoinNotice(sid)
  \/ \E sid \in Sids : JoinSnapshot(sid)
  \/ \E sid \in Sids, data \in EventData(RoomInputs) : LeaveBegin(sid, data)
  \/ \E sid \in Sids : LeaveDiscard(sid)
  \/ \E sid \in Sids : LeavePopEntry(sid)
  \/ \E sid \in Sids : LeaveNotice(sid)
  \/ \E sid \in Sids : LeaveSnapshot(sid)
  \/ \E sid \in Sids : DisconnectBegin(sid)
  \/ \E sid \in Sids : DisconnectPopEntry(sid)
  \/ \E sid \in Sids : DisconnectDiscard(sid)
  \/ \E sid \in Sids : DisconnectSnapshot(sid)
  \/ \E sid \in Sids : DisconnectEnd(sid)

SpecConcurrent == Init /\ [][NextConcurrent]_vars

\* the steps that read room_members or sid_map without writing them
ReadSteps == {"join_389", "join_403", "leave_420", "disconnect_431"}

\* ------------------------------------------------------------------ claims

\* C1: no connection handle is in the membership sets of two different rooms,
\* in every state reachable by join, leave, disconnect and send_message events.
C1_Disjointness ==
  \A r1 \in DOMAIN room_members, r2 \in DOMAIN room_members :
    r1 # r2 => room_members[r1] \cap room_members[r2] = {}

\* C2: after every handler, a handle is in room_members[r] if and only if it
\* has a sid_map entry whose room is r.
C2_RegistryMembershipConsistency ==
  \A h \in Sids, r \in DOMAIN room_members \cup {RoomOf(x) : x \in DOMAIN sid_map} :
    (h \in Get(room_members, r, {})) <=> (h \in DOMAIN sid_map /\ sid_map[h].room = r)

\* C3: once the disconnect of a connection has been handled, the connection is
\* in no room's membership set and has no registry entry.
C3_NoLeakOnDisconnect ==
  \A h \in Sids :
    conn[h] = "closed" => (InRooms(h) = {} /\ h \notin DOMAIN sid_map)

\* C4: a join for a configured room B by an authenticated connection that is a
\* member of a different room A leaves the connection in exactly {B}, with
\* sid_map recording B.
C4_SwitchExactlyNewRoom ==
  (/\ last.op = "join"
   /\ Authed(last.sid)
   /\ last.room \in CHAT_ROOMS
   /\ last.pre_in # {}
   /\ last.room \notin last.pre_in)
  => (InRooms(last.sid) = {last.room} /\ RoomOf(last.sid) = last.room)

\* C5: a leave naming a room the connection is not a member of changes neither
\* sid_map nor room_members; a leave clears the registry entry only when its
\* recorded room is the room named.
C5_LeaveGuardState ==
  [][ (last'.op = "leave")
      => /\ (last'.room \notin last'.pre_in) => UNCHANGED <<sid_map, room_members>>
         /\ (last'.sid \in DOMAIN sid_map /\ last'.sid \notin DOMAIN sid_map')
               => sid_map[last'.sid].room = last'.room ]_vars

\* C6: a leave naming a room the connection is not a member of emits neither a
\* receive_message notice nor a room_users_update snapshot.
C6_LeaveGuardEvents ==
  (last.op = "leave" /\ last.room \notin last.pre_in)
  => (~Emits("receive_message") /\ ~Emits("room_users_update"))

\* C7: a disconnect for a handle without a registry entry (never joined, or
\* already disconnected) changes neither sid_map nor room_members nor the
\* message log and emits no event.
C7_DisconnectUnregisteredNoOp ==
  [][ (last'.op = "disconnect" /\ last'.sid \notin DOMAIN sid_map)
      => (UNCHANGED <<sid_map, room_members, messages>> /\ emitted' = <<>>) ]_vars

\* C7 witness: a second disconnect of a closed connection has been handled
\* while another connection is a room member and connected.
C7_Witness ==
  /\ last.op = "disconnect"
  /\ last.pre_room = None
  /\ last.pre_conn = "closed"
  /\ \E s \in Sids \ {last.sid} : conn[s] = "open" /\ InRooms(s) # {}

\* C8: every join, leave or disconnect that changes the membership of its
\* connection emits a system notice to an affected room and a
\* room_users_update snapshot to all connections.
C8_MembershipChangeEmitsNoticeAndSnapshot ==
  (/\ last.op \in {"join", "leave", "disconnect"}
   /\ InRooms(last.sid) # last.pre_in)
  => /\ \E i \in DOMAIN emitted :
          /\ IsNotice(emitted[i])
          /\ emitted[i].room \in
               (InRooms(last.sid) \ last.pre_in) \cup (last.pre_in \ InRooms(last.sid))
     /\ \E i \in DOMAIN emitted :
          emitted[i].ev = "room_users_update" /\ emitted[i].to = Connected

\* C9: every receive_message emitted for room r is delivered to exactly the
\* connections in room_members[r] at that moment.
C9_DeliveryFollowsMembership ==
  \A i \in DOMAIN emitted :
    emitted[i].ev = "receive_message"
      => emitted[i].to = Get(room_members, emitted[i].room, {})

\* C10: a join naming a room outside CHAT_ROOMS adds no membership, creates no
\* room key and changes no registry entry: the rooms of room_members and of
\* sid_map are always configured rooms.
C10_InvalidRoomRejected ==
  /\ DOMAIN room_members \subseteq CHAT_ROOMS
  /\ \A s \in DOMAIN sid_map : sid_map[s].room \in CHAT_ROOMS

\* the other connections that are connected and in some Socket.IO room
Listeners(sid) ==
  {s \in Connected \ {sid} : \E r \in DOMAIN sio_rooms : s \in sio_rooms[r]}

\* C11: a join from a connection without an authenticated identity adds the
\* connection to no room, creates no registry entry, emits auth_required to
\* that connection only and nothing else, and closes the connection.
C11_UnauthorizedJoin ==
  [][ (last'.op = "join" /\ session[last'.sid] = NoSession)
      => /\ UNCHANGED <<room_members, sid_map, messages>>
         /\ \A r \in DOMAIN room_members' : last'.sid \notin room_members'[r]
         /\ last'.sid \notin DOMAIN sid_map'
         /\ emitted' = <<AuthRequired(last'.sid)>>
         /\ conn'[last'.sid] = "closed" ]_vars

\* C11 witness: an unauthenticated join has been handled while another
\* connection is listening in the room it named.
C11_Witness ==
  /\ last.op = "join"
  /\ session[last.sid] = NoSession
  /\ \E s \in Listeners(last.sid) : s \in Get(sio_rooms, last.room, {})

\* C12: a send_message from a connection without an authenticated identity
\* appends nothing to the message log, changes neither sid_map nor
\* room_members, and emits auth_required to the sender only and nothing else.
C12_UnauthorizedSend ==
  [][ (last'.op = "send_message" /\ session[last'.sid] = NoSession)
      => /\ UNCHANGED <<messages, room_members, sid_map>>
         /\ emitted' = <<AuthRequired(last'.sid)>> ]_vars

\* C12 witness: an unauthenticated send of a non-blank text has been handled
\* while another connection is listening in the room it named.
C12_Witness ==
  /\ last.op = "send_message"
  /\ session[last.sid] = NoSession
  /\ \E i \in DOMAIN last.msg : last.msg[i] # " "
  /\ \E s \in Listeners(last.sid) : s \in Get(sio_rooms, last.room, {})

\* a text with nothing but spaces in it
Blank(msg) == \A i \in DOMAIN msg : msg[i] = " "

\* C13: a join for a room the connection is already a member of leaves
\* room_members unchanged, leaves the room sid_map records for the connection
\* unchanged, and emits a room_users_update snapshot.
C13_DuplicateJoin ==
  [][ (/\ last'.op = "join"
       /\ Authed(last'.sid)
       /\ last'.room \in last'.pre_in
       /\ last'.pre_room # None)
      => /\ UNCHANGED room_members
         /\ last'.sid \in DOMAIN sid_map'
         /\ sid_map'[last'.sid].room = last'.pre_room
         /\ \E i \in DOMAIN emitted' : emitted'[i].ev = "room_users_update" ]_vars

\* C14: an authenticated send_message with non-blank text emits its
\* receive_message to the room and no other event whether the commit succeeds
\* or fails, and the commit is attempted before the emit.
C14_PersistenceFailureDoesNotBlockDelivery ==
  (last.op = "send_message" /\ Authed(last.sid) /\ ~Blank(last.msg))
  => /\ Len(emitted) = 1
     /\ emitted[1].ev = "receive_message"
     /\ emitted[1].room = last.room
     /\ emitted[1].user # SystemUser
     /\ emitted[1].to = Get(sio_rooms, last.room, {})
     /\ Len(last.effects) = 2
     /\ last.effects[1] = (IF last.saved THEN "commit" ELSE "rollback")
     /\ last.effects[2] = "emit"
     /\ last.saved => (messages # <<>> /\ messages[Len(messages)].room = last.room)

\* C14 witness: a send whose commit failed has been handled, with another
\* connection listening in the room.
C14_Witness ==
  /\ last.op = "send_message"
  /\ Authed(last.sid)
  /\ ~Blank(last.msg)
  /\ ~last.saved
  /\ messages = <<>>
  /\ \E s \in Listeners(last.sid) : s \in Get(sio_rooms, last.room, {})

\* C15: an authenticated send_message whose text is missing or blank appends
\* nothing to the message log, emits no event to any connection and changes
\* neither sid_map nor room_members.
C15_EmptyMessage ==
  [][ (last'.op = "send_message" /\ session[last'.sid] # NoSession /\ Blank(last'.msg))
      => /\ UNCHANGED <<messages, sid_map, room_members>>
         /\ emitted' = <<>> ]_vars

\* C15 witness: a send of a text of spaces has been handled, with another
\* connection listening in the room.
C15_Witness ==
  /\ last.op = "send_message"
  /\ Authed(last.sid)
  /\ last.msg # <<>>
  /\ Blank(last.msg)
  /\ \E s \in Listeners(last.sid) : s \in Get(sio_rooms, last.room, {})

BagCount(names, n) == IF n \in DOMAIN names THEN names[n] ELSE 0

\* the last event moved its connection from the room recorded for it to another
WasSwitch(l) ==
  /\ l.op = "join"
  /\ l.pre_room \notin {None, l.room}
  /\ l.pre_room \in l.pre_in
  /\ l.room \notin l.pre_in
  /\ {l.pre_room, l.room} \subseteq CHAT_ROOMS

\* C17: a join that moves a connection from room A to room B emits exactly one
\* room_users_update, whose counts show A with one member less and B with one
\* more and whose lists show the connection's name once more under B and once
\* less under A; a disconnect that follows emits one snapshot with B's count
\* one less again.
C17_SwitchSnapshot ==
  [][ LET s == last'.sid
          A == last'.pre_room
          B == last'.room
          snaps == {i \in DOMAIN emitted' : emitted'[i].ev = "room_users_update"}
      IN /\ (WasSwitch(last') /\ session[s] # NoSession)
            => /\ Cardinality(snaps) = 1
               /\ \A i \in snaps :
                    LET p == emitted'[i].msg
                        nick == sid_map'[s].nick
                    IN /\ p.counts[A] = Cardinality(room_members[A]) - 1
                       /\ p.counts[B] = Cardinality(room_members[B]) + 1
                       /\ BagCount(p.lists[B], nick)
                            = BagCount(NamesOf(room_members, sid_map, B), nick) + 1
                       /\ BagCount(p.lists[A], nick)
                            = BagCount(NamesOf(room_members, sid_map, A), nick) - 1
         /\ (WasSwitch(last) /\ last'.op = "disconnect" /\ last'.sid = last.sid)
            => /\ Len(emitted') = 1
               /\ Cardinality(snaps) = 1
               /\ \A i \in snaps :
                    emitted'[i].msg.counts[last.room]
                      = Cardinality(room_members[last.room]) - 1 ]_vars

\* C17 witness: a connection has switched rooms while another connection
\* stays in the room it came from.
C17_Witness ==
  /\ WasSwitch(last)
  /\ room_members[last.pre_room] # {}
  /\ \E i \in DOMAIN emitted : emitted[i].ev = "room_users_update"

\* len() of a list of names
RECURSIVE ListLen(_)
ListLen(names) ==
  IF DOMAIN names = {} THEN 0
  ELSE LET n == CHOOSE x \in DOMAIN names : TRUE
       IN names[n] + ListLen([x \in (DOMAIN names) \ {n} |-> names[x]])

\* C18: in every room_users_update payload emitted, for every configured room
\* r, counts[r] is the number of connections in room_members[r] and is the
\* length of lists[r].
C18_SnapshotSelfConsistent ==
  \A i \in DOMAIN emitted :
    emitted[i].ev = "room_users_update"
      => \A r \in CHAT_ROOMS :
           /\ emitted[i].msg.counts[r] = Cardinality(Get(room_members, r, {}))
           /\ emitted[i].msg.counts[r] = ListLen(emitted[i].msg.lists[r])

\* C19: no event emitted for a join, leave or send_message of a connection
\* without an authenticated identity is delivered to another connection, and
\* no system notice emitted for it carries the name the client supplied.
C19_UnauthenticatedCannotAffectOthers ==
  (last.op \in {"join", "leave", "send_message"} /\ ~Authed(last.sid))
  => \A i \in DOMAIN emitted :
       /\ emitted[i].to \subseteq {last.sid}
       /\ IsNotice(emitted[i]) => emitted[i].msg[1] \notin UserInputs
\* C20: while a handler of one connection is at a step that reads the shared
\* structures or builds a snapshot, no other connection with a handler in
\* progress (that found it in at most the room its entry names) is in zero
\* rooms while switching, in two rooms, or in a membership set without a
\* registry entry.
C20_NoIntermediateStateObserved ==
  \A s \in Sids, t \in Sids :
    (s # t /\ pc[s].at \in ReadSteps /\ pc[t] # Idle /\ pc[t].clean)
    => /\ ~(Truthy(pc[t].prev_room) /\ pc[t].at \in {"join_394", "join_396"}
            /\ InRooms(t) = {})
       /\ Cardinality(InRooms(t)) < 2
       /\ InRooms(t) # {} => t \in DOMAIN sid_map
====
